---- MODULE Spec2Model ----
(***************************************************************************)
(* A model of src/sandbox/freebsd-sandbox-utils.ts: the mount planner      *)
(* (generateJailFilesystemConfig), the orchestrator                        *)
(* (wrapCommandWithSandboxFreeBSD), the execution of the wrapper script it *)
(* returns under sh(1), and the bridge initializer                         *)
(* (initializeFreeBSDNetworkBridge).                                       *)
(*                                                                         *)
(* Paths are sequences of components: "/home/p" is <<"home", "p">>.  A     *)
(* shell command is a record [op, ro, src, dst]; the separators "&&" and   *)
(* ";" are tokens of the same shape, so that the wrapper script is the     *)
(* token sequence the code's joins produce and the shell's grammar, not    *)
(* the model, decides how it groups.                                       *)
(***************************************************************************)
EXTENDS Integers, Sequences, FiniteSets, TLC

\* ------------------------------------------------------------------ bounds

\* The entries of allowOnly, denyWithinAllow and denyOnly taken together.
MaxPolicyEntries == 3
\* The same, for the calls whose wrapper is then run.
MaxRunPolicyEntries == 2
\* The jail exits with a status in 0..MaxJailStatus.
MaxJailStatus == 1
\* Unmounts that fail for a reason other than a mount stacked beneath them.
MaxSpuriousFailures == 1
\* Calls of hasFreeBSDSandboxDependenciesSync in one process.
MaxDepsCalls == 3

\* ------------------------------------------------------------------- paths

None == <<"none">>

Dev == <<"dev">>
DevX == <<"dev", "x">>
P == <<"home", "p">>
PDot == <<"home", ".", "p">>
Q == <<"home", "p", "q">>
F == <<"home", "p", "f">>
Cwd == <<"work">>
HttpSock == <<"tmp", "http.sock">>
SocksSock == <<"tmp", "socks.sock">>
EmptyFile == <<"tmp", "empty">>
\* jailName = sbx_<random>, jailPath = join(tmpdir(), jailName)
jailName == "sbx"
JailPath == <<"tmp", jailName>>

\* node:path join of an absolute path below another
join(a, b) == a \o b

\* join(p, '..')
parentOf(p) == IF Len(p) = 0 THEN p ELSE SubSeq(p, 1, Len(p) - 1)

\* String.prototype.startsWith('/dev/')
startsWithDevSlash(p) == Len(p) >= 2 /\ p[1] = "dev"

\* a is b or an ancestor directory of b
IsPrefix(a, b) == Len(a) <= Len(b) /\ SubSeq(b, 1, Len(a)) = a

\* normalizePathForSandbox (./sandbox-utils.js): the canonical form of a path
normalizePathForSandbox(p) == SelectSeq(p, LAMBDA c : c # ".")

\* ------------------------------------------------------------------- hosts

\* A host file system: the paths that exist and, among them, the directories.
HostTypical == [exists |-> {Dev, <<"usr">>, DevX, P, Q, F, Cwd, HttpSock, SocksSock},
                dirs |-> {Dev, <<"usr">>, P, Q, Cwd}]
HostSparse == [exists |-> {Dev, P, F, Cwd, HttpSock, SocksSock},
               dirs |-> {Dev, P, Cwd}]
HostBare == [exists |-> {Cwd}, dirs |-> {Cwd}]
Hosts == {HostTypical, HostSparse, HostBare}

existsSync(host, p) == p \in host.exists
isDirectory(host, p) == p \in host.dirs

\* ---------------------------------------------------------------- commands

Cmd(op, ro, src, dst) == [op |-> op, ro |-> ro, src |-> src, dst |-> dst]
Tok(op) == Cmd(op, FALSE, <<>>, <<>>)
AND == Tok("&&")
SEMI == Tok(";")

\* `mount_nullfs [-o ro] src dst`
MountNullfs(ro, src, dst) == Cmd("mount_nullfs", ro, src, dst)
\* `mount -t tmpfs tmpfs dst`
MountTmpfs(dst) == Cmd("mount_tmpfs", FALSE, <<"tmpfs">>, dst)
\* `umount dst`
Umount(dst) == Cmd("umount", FALSE, <<>>, dst)

IsMount(c) == c.op \in {"mount_nullfs", "mount_tmpfs"}

\* ----------------------------------------------------------- mount planner

essentialDirs == << <<"dev">>, <<"tmp">>, <<"var", "tmp">>, <<"etc">>, <<"usr">>, <<"bin">> >>

essentialMounts == << [src |-> <<"dev">>, mode |-> "rw"],
                      [src |-> <<"usr">>, mode |-> "ro"],
                      [src |-> <<"bin">>, mode |-> "ro"],
                      [src |-> <<"lib">>, mode |-> "ro"],
                      [src |-> <<"libexec">>, mode |-> "ro"],
                      [src |-> <<"etc">>, mode |-> "ro"] >>

\* The planner's accumulator: the two arrays and the directories made so far.
EmptyPlan == [mounts |-> <<>>, unmounts |-> <<>>, created |-> {}]

\* mkdirSync(dir, {recursive: true}) when the directory is not there yet
Mkdir(acc, dir) == [acc EXCEPT !.created = @ \cup {dir}]

\* mounts.push(m); unmounts.push(`umount ${dst}`)
PushMount(acc, m) ==
  [acc EXCEPT !.mounts = Append(@, m), !.unmounts = Append(@, Umount(m.dst))]

\* the directory made for a mount point: the point itself for a directory,
\* its parent for a file
jailMountDirOf(host, normalizedPath, jailMountPoint) ==
  IF isDirectory(host, normalizedPath) THEN jailMountPoint ELSE parentOf(jailMountPoint)

RECURSIVE PlanEssentialDirs(_, _, _)
PlanEssentialDirs(jailPath, acc, i) ==
  IF i > Len(essentialDirs) THEN acc
  ELSE PlanEssentialDirs(jailPath, Mkdir(acc, join(jailPath, essentialDirs[i])), i + 1)

RECURSIVE PlanEssentialMounts(_, _, _, _)
PlanEssentialMounts(host, jailPath, acc, i) ==
  IF i > Len(essentialMounts) THEN acc
  ELSE LET mount == essentialMounts[i]
           dst == join(jailPath, mount.src)
       IN IF ~existsSync(host, mount.src)
          THEN PlanEssentialMounts(host, jailPath, acc, i + 1)
          ELSE PlanEssentialMounts(host, jailPath,
                 PushMount(Mkdir(acc, dst), MountNullfs(mount.mode = "ro", mount.src, dst)),
                 i + 1)

\* the loop over writeConfig.allowOnly
RECURSIVE PlanAllowOnly(_, _, _, _, _)
PlanAllowOnly(host, jailPath, acc, allowOnly, i) ==
  IF i > Len(allowOnly) THEN acc
  ELSE LET normalizedPath == normalizePathForSandbox(allowOnly[i])
           jailMountPoint == join(jailPath, normalizedPath)
       IN IF startsWithDevSlash(normalizedPath) \/ ~existsSync(host, normalizedPath)
          THEN PlanAllowOnly(host, jailPath, acc, allowOnly, i + 1)
          ELSE PlanAllowOnly(host, jailPath,
                 PushMount(Mkdir(acc, jailMountDirOf(host, normalizedPath, jailMountPoint)),
                           MountNullfs(FALSE, normalizedPath, jailMountPoint)),
                 allowOnly, i + 1)

\* the loop over denyPaths = denyWithinAllow ++ getMandatoryDenyWithinAllow()
RECURSIVE PlanDenyPaths(_, _, _, _, _)
PlanDenyPaths(host, jailPath, acc, denyPaths, i) ==
  IF i > Len(denyPaths) THEN acc
  ELSE LET normalizedPath == normalizePathForSandbox(denyPaths[i])
           jailMountPoint == join(jailPath, normalizedPath)
       IN IF startsWithDevSlash(normalizedPath) \/ ~existsSync(host, normalizedPath)
          THEN PlanDenyPaths(host, jailPath, acc, denyPaths, i + 1)
          ELSE PlanDenyPaths(host, jailPath,
                 PushMount(Mkdir(acc, jailMountDirOf(host, normalizedPath, jailMountPoint)),
                           MountNullfs(TRUE, normalizedPath, jailMountPoint)),
                 denyPaths, i + 1)

\* the loop over readConfig.denyOnly
RECURSIVE PlanDenyOnly(_, _, _, _, _)
PlanDenyOnly(host, jailPath, acc, denyOnly, i) ==
  IF i > Len(denyOnly) THEN acc
  ELSE LET normalizedPath == normalizePathForSandbox(denyOnly[i])
           jailMountPoint == join(jailPath, normalizedPath)
           made == Mkdir(acc, jailMountDirOf(host, normalizedPath, jailMountPoint))
       IN IF ~existsSync(host, normalizedPath)
          THEN PlanDenyOnly(host, jailPath, acc, denyOnly, i + 1)
          ELSE IF isDirectory(host, normalizedPath)
          THEN PlanDenyOnly(host, jailPath, PushMount(made, MountTmpfs(jailMountPoint)),
                            denyOnly, i + 1)
          ELSE PlanDenyOnly(host, jailPath,
                            PushMount(made, MountNullfs(TRUE, EmptyFile, jailMountPoint)),
                            denyOnly, i + 1)

\* a mutant of PlanWriteConfig: the read-only overrides are planned before
\* the allow mounts
PlanWriteConfigDenyFirst(host, jailPath, acc, writeConfig, mandatoryDeny) ==
  PlanAllowOnly(host, jailPath,
    PlanDenyPaths(host, jailPath, acc, writeConfig.denyWithinAllow \o mandatoryDeny, 1),
    writeConfig.allowOnly, 1)

\* a mutant of PlanWriteConfig: the working directory is bound read-write
\* under a write policy too
PlanWriteConfigWithCwd(host, jailPath, acc, writeConfig, mandatoryDeny) ==
  PlanDenyPaths(host, jailPath,
    PlanAllowOnly(host, jailPath,
      PushMount(Mkdir(acc, join(jailPath, Cwd)), MountNullfs(FALSE, Cwd, join(jailPath, Cwd))),
      writeConfig.allowOnly, 1),
    writeConfig.denyWithinAllow \o mandatoryDeny, 1)

\* the branch `if (writeConfig)`: the allow mounts, then the read-only overrides
PlanWriteConfig(host, jailPath, acc, writeConfig, mandatoryDeny) ==
  PlanDenyPaths(host, jailPath,
    PlanAllowOnly(host, jailPath, acc, writeConfig.allowOnly, 1),
    writeConfig.denyWithinAllow \o mandatoryDeny, 1)

\* the branch `else`: the working directory, read-write
PlanCwd(jailPath, acc) ==
  PushMount(Mkdir(acc, join(jailPath, Cwd)), MountNullfs(FALSE, Cwd, join(jailPath, Cwd)))

\* a mutant of generateJailFilesystemConfig: the read policy is planned before
\* the write policy
generateJailFilesystemConfigReadFirst(host, jailPath, readConfig, writeConfig, mandatoryDeny) ==
  LET essential == PlanEssentialMounts(host, jailPath,
                     PlanEssentialDirs(jailPath, EmptyPlan, 1), 1)
      hidden == IF readConfig.given
                THEN PlanDenyOnly(host, jailPath, essential, readConfig.denyOnly, 1)
                ELSE essential
  IN IF writeConfig.given
     THEN PlanWriteConfig(host, jailPath, hidden, writeConfig, mandatoryDeny)
     ELSE PlanCwd(jailPath, hidden)

\* the planner: the essential directories and mounts, the write-policy branch
\* or the working directory, then the read-policy hides
generateJailFilesystemConfig(host, jailPath, readConfig, writeConfig, mandatoryDeny) ==
  LET essential == PlanEssentialMounts(host, jailPath,
                     PlanEssentialDirs(jailPath, EmptyPlan, 1), 1)
      written == IF writeConfig.given
                 THEN PlanWriteConfig(host, jailPath, essential, writeConfig, mandatoryDeny)
                 ELSE PlanCwd(jailPath, essential)
  IN IF readConfig.given
     THEN PlanDenyOnly(host, jailPath, written, readConfig.denyOnly, 1)
     ELSE written

\* getMandatoryDenyWithinAllow() (./sandbox-utils.js): the paths that stay
\* read-only under every write policy
getMandatoryDenyWithinAllow == <<F>>

\* ------------------------------------------------------------ orchestrator

\* generateProxyEnvVars(3128, 1080) (./sandbox-utils.js): NAME=value strings,
\* here the characters that matter to the caller's split at the first "="
httpListenPort == 3128
socksListenPort == 1080
PortString(n) == IF n = httpListenPort THEN "3128" ELSE "1080"
generateProxyEnvVars(httpPort, socksPort) ==
  << <<"HTTP_PROXY", "=", "http://localhost:", PortString(httpPort)>>,
     <<"ALL_PROXY", "=", "socks5://localhost:", PortString(socksPort)>>,
     <<"NO_PROXY", "=", "localhost">> >>

\* env.indexOf('=')
RECURSIVE indexOfEq(_, _)
indexOfEq(env, i) ==
  IF i > Len(env) THEN 0 ELSE IF env[i] = "=" THEN i ELSE indexOfEq(env, i + 1)

\* `env.${key}=${value}` with key and value cut at the first "="
EnvArg(env) ==
  LET firstEq == indexOfEq(env, 1)
      key == SubSeq(env, 1, firstEq - 1)
      value == SubSeq(env, firstEq + 1, Len(env))
  IN <<"env.">> \o key \o <<"=">> \o value

\* buildJailCommand: the in-jail listeners on the two sockets, the exit trap,
\* then the user's command
buildJailCommand(httpSocketPath, socksSocketPath, userCommand) ==
  <<"sh -c", "socat 3128">> \o httpSocketPath \o <<"socat 1080">> \o socksSocketPath
    \o <<"trap", "eval", userCommand>>

\* a mutant of NeedsSandbox: a policy object alone asks for the jail
NeedsSandboxOrPolicy(params) ==
  params.hasNetworkRestrictions \/ params.hasFilesystemRestrictions
    \/ params.writeConfig.given \/ params.readConfig.given

\* the negation of `!hasNetworkRestrictions && !hasFilesystemRestrictions`
NeedsSandbox(params) ==
  params.hasNetworkRestrictions \/ params.hasFilesystemRestrictions

\* `if (!httpSocketPath || !socksSocketPath)`
BridgePathsMissing(params) ==
  params.httpSocketPath = None \/ params.socksSocketPath = None

\* the two socket binds pushed onto the planner's mounts
BridgeMounts(jailPath, params) ==
  << MountNullfs(FALSE, params.httpSocketPath, join(jailPath, params.httpSocketPath)),
     MountNullfs(FALSE, params.socksSocketPath, join(jailPath, params.socksSocketPath)) >>

\* a mutant of BridgeUnmounts: the directories made for the sockets are
\* unmounted, not the sockets bound in them
BridgeUnmountsOfDirs(jailPath, params) ==
  << Umount(parentOf(join(jailPath, params.socksSocketPath))),
     Umount(parentOf(join(jailPath, params.httpSocketPath))) >>

\* unmounts.unshift(http); unmounts.unshift(socks)
BridgeUnmounts(jailPath, params) ==
  << Umount(join(jailPath, params.socksSocketPath)),
     Umount(join(jailPath, params.httpSocketPath)) >>

\* the arguments pushed before the network branch
BasicJailArgs(jailPath) ==
  << <<"-c">>, <<"name=", jailName>>, <<"path=">> \o jailPath, <<"host.hostname=", jailName>> >>

\* a mutant of NetworkJailArgs: the host's addresses are inherited in the
\* isolated case as well
NetworkJailArgsInheritToo(params) ==
  IF params.hasNetworkRestrictions
  THEN << <<"vnet">>, <<"allow.raw_sockets=1">>, <<"ip4=inherit">>, <<"ip6=inherit">> >>
  ELSE << <<"ip4=inherit">>, <<"ip6=inherit">> >>

\* the network branch: vnet and raw sockets, or the host's addresses inherited
NetworkJailArgs(params) ==
  IF params.hasNetworkRestrictions
  THEN << <<"vnet">>, <<"allow.raw_sockets=1">> >>
  ELSE << <<"ip4=inherit">>, <<"ip6=inherit">> >>

CleanupJailArgs ==
  << <<"persist=0">>, <<"allow.mount=0">>, <<"allow.set_hostname=0">>, <<"allow.sysvipc=0">> >>

RECURSIVE EnvArgs(_, _)
EnvArgs(proxyEnv, i) ==
  IF i > Len(proxyEnv) THEN <<>> ELSE <<EnvArg(proxyEnv[i])>> \o EnvArgs(proxyEnv, i + 1)

\* the inner command and the env.* arguments that go with it
UsesBridge(params) ==
  params.hasNetworkRestrictions /\ params.httpSocketPath # None
    /\ params.socksSocketPath # None

CommandJailArgs(params) ==
  IF UsesBridge(params)
  THEN EnvArgs(generateProxyEnvVars(httpListenPort, socksListenPort), 1)
         \o << <<"command=sh -c">>
                 \o buildJailCommand(params.httpSocketPath, params.socksSocketPath,
                                     params.command) >>
  ELSE << <<"command=sh -c", params.command>> >>

\* Array.prototype.join over pieces of a script
RECURSIVE JoinTokens(_, _)
JoinTokens(items, sep) ==
  IF Len(items) = 0 THEN <<>>
  ELSE IF Len(items) = 1 THEN items[1]
  ELSE items[1] \o <<sep>> \o JoinTokens(Tail(items), sep)

Singletons(cmds) == [i \in 1..Len(cmds) |-> <<cmds[i]>>]

\* a mutant of setupScript: the mounts are joined with ";"
setupScriptSemi(mounts) == JoinTokens(Singletons(mounts), SEMI)

\* mounts.join(' && ')
setupScript(mounts) == JoinTokens(Singletons(mounts), AND)

\* unmounts.join('; ')
cleanupScript(unmounts) == JoinTokens(Singletons(unmounts), SEMI)

JailCmd == Tok("jail")
AssignExitCode == Tok("EXIT_CODE=$?")
RmJailRoot(jailPath) == Cmd("rm -rf", FALSE, <<>>, jailPath)
ExitWithCode == Tok("exit $EXIT_CODE")

\* [setupScript, jailCmd, `EXIT_CODE=$?`, cleanupScript, `rm -rf ${jailPath}`,
\*  `exit $EXIT_CODE`].join(' && ')
wrapperScript(jailPath, mounts, unmounts) ==
  JoinTokens(<< setupScript(mounts), <<JailCmd>>, <<AssignExitCode>>,
                cleanupScript(unmounts), <<RmJailRoot(jailPath)>>, <<ExitWithCode>> >>, AND)

\* `sh -c ${quote([wrapperScript])}`: the string returned around the script
WrappedCommand == "sh -c <wrapperScript>"
NothingReturned == "<thrown>"

\* What one call of wrapCommandWithSandboxFreeBSD leaves behind: how it ended
\* (the command returned as it is, an error thrown, a wrapper returned), the
\* two arrays and the jail arguments as they stood then, the directories it
\* made on the host, and the wrapper script.
wrapCommandWithSandboxFreeBSD(host, params) ==
  LET jailPath == JailPath
      plan == generateJailFilesystemConfig(host, jailPath, params.readConfig,
                params.writeConfig, getMandatoryDenyWithinAllow)
      made == plan.created \cup {jailPath}
  IN IF ~NeedsSandbox(params)
     THEN [outcome |-> "command", returned |-> params.command,
           mounts |-> <<>>, unmounts |-> <<>>, jailArgs |-> <<>>,
           created |-> {}, script |-> <<>>]
     ELSE IF params.hasNetworkRestrictions /\ BridgePathsMissing(params)
     THEN [outcome |-> "MissingBridgeConfig", returned |-> NothingReturned,
           mounts |-> plan.mounts,
           unmounts |-> plan.unmounts, jailArgs |-> BasicJailArgs(jailPath),
           created |-> made, script |-> <<>>]
     ELSE LET net == params.hasNetworkRestrictions
              allMounts == IF net THEN plan.mounts \o BridgeMounts(jailPath, params)
                           ELSE plan.mounts
              allUnmounts == IF net THEN BridgeUnmounts(jailPath, params) \o plan.unmounts
                             ELSE plan.unmounts
              socketDirs == IF net
                            THEN {parentOf(join(jailPath, params.httpSocketPath)),
                                  parentOf(join(jailPath, params.socksSocketPath))}
                            ELSE {}
          IN [outcome |-> "wrapped", returned |-> WrappedCommand,
              mounts |-> allMounts, unmounts |-> allUnmounts,
              jailArgs |-> BasicJailArgs(jailPath) \o NetworkJailArgs(params)
                             \o CleanupJailArgs \o CommandJailArgs(params),
              created |-> made \cup socketDirs,
              script |-> wrapperScript(jailPath, allMounts, allUnmounts)]

\* ------------------------------------------------------------------ inputs

Commands == {"echo hi", "ls -l"}
AllowPatterns == {P, PDot, Cwd}
DenyPatterns == {Q, Dev, DevX}
ReadPatterns == {Q, F}

NoWriteConfig == [given |-> FALSE, allowOnly |-> <<>>, denyWithinAllow |-> <<>>]
NoReadConfig == [given |-> FALSE, denyOnly |-> <<>>]

\* the write policies with a entries in allowOnly and d in denyWithinAllow;
\* no policy at all counts for none
WriteConfigs(a, d) ==
  {[given |-> TRUE, allowOnly |-> x, denyWithinAllow |-> y] :
     x \in [1..a -> AllowPatterns], y \in [1..d -> DenyPatterns]}
  \cup (IF a + d = 0 THEN {NoWriteConfig} ELSE {})

\* the read policies with r entries in denyOnly
ReadConfigs(r) ==
  {[given |-> TRUE, denyOnly |-> z] : z \in [1..r -> ReadPatterns]}
  \cup (IF r = 0 THEN {NoReadConfig} ELSE {})

PolicyEntries(w, r) == Len(w.allowOnly) + Len(w.denyWithinAllow) + Len(r.denyOnly)

\* the lengths of allowOnly, denyWithinAllow and denyOnly, at most n in all
PolicyLengths(n) == {u \in (0..n) \X (0..n) \X (0..n) : u[1] + u[2] + u[3] <= n}

Params(c, n, f, hs, ss, r, w) ==
  [command |-> c, hasNetworkRestrictions |-> n, hasFilesystemRestrictions |-> f,
   httpSocketPath |-> hs, socksSocketPath |-> ss, readConfig |-> r, writeConfig |-> w]

NoParams ==
  [command |-> "", hasNetworkRestrictions |-> FALSE, hasFilesystemRestrictions |-> FALSE,
   httpSocketPath |-> None, socksSocketPath |-> None, readConfig |-> NoReadConfig,
   writeConfig |-> NoWriteConfig]

\* ------------------------------------------------------------------- state

Bridges == {"http", "socks"}
\* a ChildProcess: pid is set when the spawn gave a process identifier; killed
\* is set by subprocess.kill() alone, which nothing here calls, and not by
\* the process exiting; alive is the process itself
NoProcess == [pid |-> FALSE, killed |-> FALSE, alive |-> FALSE]
Spawned == [pid |-> TRUE, killed |-> FALSE, alive |-> TRUE]
NothingObserved == [alive |-> FALSE, http |-> FALSE, socks |-> FALSE]

\* a shell variable, a status or a cache that has no value yet
Unset == <<>>
Value(n) == <<n>>

\* the tools hasFreeBSDSandboxDependenciesSync looks for
Tools == {"jail", "socat", "rg"}
\* spawnSync('which', [tool]).status: "0" found, "1" not found, "null" when
\* the child was stopped at the timeout
NotProbed == [t \in Tools |-> "none"]

VARIABLES
  params,       \* the argument of wrapCommandWithSandboxFreeBSD
  host,         \* the host file system it ran on
  outcome,      \* "idle", "called", then how the call ended
  returned,     \* the string the call returned
  mounts,       \* the mounts array
  unmounts,     \* the unmounts array
  jailArgs,     \* the jailArgs array
  created,      \* the directories the call made on the host
  script,       \* the wrapper script, as tokens
  shState,      \* the shell running the wrapper: "none", "running", "exited"
  lists,        \* the script as sh parses it: and-or lists, each a row of commands
  li, ci,       \* the next command: list and place in it
  lastStatus,   \* $?
  exitCode,     \* the shell variable EXIT_CODE
  log,          \* the commands run so far, each with its exit status
  mounted,      \* the mounts in place under the jail root, the latest last
  spurious,     \* unmounts that failed though nothing was stacked on them
  rmMounted,    \* the mounts in place when rm -rf ran
  finalStatus,  \* the exit status of the wrapper script
  bpc,          \* where initializeFreeBSDNetworkBridge stands
  proc,         \* the two ChildProcess handles (pid, killed) and whether the
                \* process behind each still runs
  sock,         \* whether each socket file exists
  signalled,    \* the processes process.kill(pid, 'SIGTERM') was tried on
  loopI,        \* the loop variable i
  attempts,     \* the readiness attempts made
  sleeps,       \* the delays awaited
  observed,     \* what the latest attempt saw
  bresult,      \* how the call ended
  freebsdDepsCache, \* the module-level cache: unset, or the boolean it holds
  installed,    \* the tools `which` finds on the host right now
  probeResult,  \* the spawnSync statuses of the latest probe
  probes,       \* how many times the probe has been run
  depsReturned  \* what each call of hasFreeBSDSandboxDependenciesSync returned

wrapVars == <<params, host, outcome, returned, mounts, unmounts, jailArgs, created, script>>
shVars == <<shState, lists, li, ci, lastStatus, exitCode, log, mounted, spurious,
            rmMounted, finalStatus>>
brVars == <<bpc, proc, sock, signalled, loopI, attempts, sleeps, observed, bresult>>
depVars == <<freebsdDepsCache, installed, probeResult, probes, depsReturned>>
vars == <<wrapVars, shVars, brVars, depVars>>

Init ==
  /\ params = NoParams
  /\ host = HostBare
  /\ outcome = "idle" /\ returned = NothingReturned
  /\ mounts = <<>> /\ unmounts = <<>> /\ jailArgs = <<>>
  /\ created = {} /\ script = <<>>
  /\ shState = "none" /\ lists = <<>> /\ li = 1 /\ ci = 1
  /\ lastStatus = 0 /\ exitCode = Unset /\ log = <<>> /\ mounted = <<>>
  /\ spurious = 0 /\ rmMounted = <<>> /\ finalStatus = Unset
  /\ bpc = "spawnHttp"
  /\ proc = [b \in Bridges |-> NoProcess]
  /\ sock = [b \in Bridges |-> FALSE]
  /\ signalled = {}
  /\ loopI = 0 /\ attempts = 0 /\ sleeps = 0
  /\ observed = NothingObserved
  /\ bresult = "none"
  /\ freebsdDepsCache = Unset
  /\ installed = Tools
  /\ probeResult = NotProbed
  /\ probes = 0
  /\ depsReturned = <<>>

\* The caller makes up the argument of a call, on some host.
Call ==
  /\ outcome = "idle"
  /\ \E h \in Hosts, c \in Commands, n \in BOOLEAN, f \in BOOLEAN,
        hs \in {None, HttpSock}, ss \in {None, SocksSock},
        t \in PolicyLengths(MaxPolicyEntries) :
       \E w \in WriteConfigs(t[1], t[2]), r \in ReadConfigs(t[3]) :
         /\ params' = Params(c, n, f, hs, ss, r, w)
         /\ host' = h
  /\ outcome' = "called"
  /\ UNCHANGED <<depVars, returned, mounts, unmounts, jailArgs, created, script, shVars, brVars>>

\* The argument of a call whose wrapper the caller goes on to run: the socket
\* paths are given exactly when the network is restricted, the policies are
\* short, and one command stands for all, the jail's exit status being drawn
\* when the jail runs.
CallToRun ==
  /\ outcome = "idle"
  /\ \E h \in Hosts, n \in BOOLEAN, f \in BOOLEAN,
        t \in PolicyLengths(MaxRunPolicyEntries) :
       \E w \in WriteConfigs(t[1], t[2]), r \in ReadConfigs(t[3]) :
         /\ params' = Params("echo hi", n, f, IF n THEN HttpSock ELSE None,
                             IF n THEN SocksSock ELSE None, r, w)
         /\ host' = h
  /\ outcome' = "called"
  /\ UNCHANGED <<depVars, returned, mounts, unmounts, jailArgs, created, script, shVars, brVars>>

\* The call of wrapCommandWithSandboxFreeBSD, from its first statement to its
\* return or throw.
Wrap ==
  /\ outcome = "called"
  /\ \E r \in {wrapCommandWithSandboxFreeBSD(host, params)} :
       /\ outcome' = r.outcome
       /\ returned' = r.returned
       /\ mounts' = r.mounts
       /\ unmounts' = r.unmounts
       /\ jailArgs' = r.jailArgs
       /\ created' = r.created
       /\ script' = r.script
  /\ UNCHANGED <<depVars, params, host, shVars, brVars>>

\* ------------------------------------------------------ the wrapper under sh

\* the first place of sep in toks, 0 when there is none
RECURSIVE IndexOfTok(_, _, _)
IndexOfTok(toks, sep, i) ==
  IF i > Len(toks) THEN 0 ELSE IF toks[i] = sep THEN i ELSE IndexOfTok(toks, sep, i + 1)

RECURSIVE SplitOn(_, _)
SplitOn(toks, sep) ==
  LET k == IndexOfTok(toks, sep, 1)
  IN IF k = 0 THEN <<toks>>
     ELSE <<SubSeq(toks, 1, k - 1)>> \o SplitOn(SubSeq(toks, k + 1, Len(toks)), sep)

\* sh's grammar: ";" separates and-or lists, "&&" chains the commands of one,
\* so "&&" binds tighter than ";"
AndOrLists(toks) ==
  LET rows == SplitOn(toks, SEMI)
  IN [i \in 1..Len(rows) |-> SplitOn(rows[i], AND)]

\* a separator with no command on one side of it
SyntaxError(parsed) ==
  \E i \in 1..Len(parsed) : \E j \in 1..Len(parsed[i]) : Len(parsed[i][j]) # 1

Commandlists(parsed) ==
  [i \in 1..Len(parsed) |-> [j \in 1..Len(parsed[i]) |-> parsed[i][j][1]]]

\* The caller hands the wrapper to sh, which parses all of it before it runs
\* any of it; a syntax error ends it with status 2.
ShStart ==
  /\ outcome = "wrapped" /\ shState = "none"
  /\ LET parsed == AndOrLists(script)
     IN IF SyntaxError(parsed)
        THEN /\ shState' = "exited" /\ finalStatus' = Value(2) /\ lists' = <<>>
        ELSE /\ shState' = "running" /\ finalStatus' = Unset
             /\ lists' = Commandlists(parsed)
  /\ UNCHANGED <<depVars, wrapVars, brVars, li, ci, lastStatus, exitCode, log, mounted, spurious, rmMounted>>

Running == shState = "running"
Cur == lists[li][ci]

\* After a command that ended with `status`: on in the and-or list when it was
\* 0 and the list goes on, else on to the next list; past the last list the
\* script ends with the status of the last command run.
Advance(status) ==
  /\ lastStatus' = status
  /\ log' = Append(log, [cmd |-> Cur, status |-> status])
  /\ IF status = 0 /\ ci < Len(lists[li])
     THEN /\ li' = li /\ ci' = ci + 1
          /\ UNCHANGED <<shState, finalStatus>>
     ELSE IF li < Len(lists)
     THEN /\ li' = li + 1 /\ ci' = 1
          /\ UNCHANGED <<shState, finalStatus>>
     ELSE /\ shState' = "exited" /\ finalStatus' = Value(status)
          /\ UNCHANGED <<li, ci>>

\* a mount command: it succeeds and the mount is in place, or it fails
ExecMount ==
  /\ Running /\ IsMount(Cur)
  /\ \E ok \in BOOLEAN :
       /\ Advance(IF ok THEN 0 ELSE 1)
       /\ mounted' = IF ok THEN Append(mounted, Cur) ELSE mounted
  /\ UNCHANGED <<depVars, wrapVars, brVars, lists, exitCode, spurious, rmMounted>>

\* the jail runs the command and exits with its status
ExecJail ==
  /\ Running /\ Cur.op = "jail"
  /\ \E status \in 0..MaxJailStatus : Advance(status)
  /\ UNCHANGED <<depVars, wrapVars, brVars, lists, exitCode, mounted, spurious, rmMounted>>

\* EXIT_CODE=$?
ExecAssign ==
  /\ Running /\ Cur.op = "EXIT_CODE=$?"
  /\ exitCode' = Value(lastStatus)
  /\ Advance(0)
  /\ UNCHANGED <<depVars, wrapVars, brVars, lists, mounted, spurious, rmMounted>>

\* the last mount in place at dst, 0 when there is none
TopAt(dst) ==
  LET at == {i \in 1..Len(mounted) : mounted[i].dst = dst}
  IN IF at = {} THEN 0 ELSE CHOOSE i \in at : \A j \in at : j <= i

\* a later mount sits at or below the mount point: umount answers EBUSY
Busy(dst, top) ==
  \E j \in (top + 1)..Len(mounted) : IsPrefix(dst, mounted[j].dst)

Without(s, k) == SubSeq(s, 1, k - 1) \o SubSeq(s, k + 1, Len(s))

\* umount dst: fails when nothing is mounted there or a mount is stacked on
\* it; otherwise it takes the mount away, or fails for a reason of its own
ExecUmount ==
  /\ Running /\ Cur.op = "umount"
  /\ LET top == TopAt(Cur.dst)
     IN IF top = 0 \/ Busy(Cur.dst, top)
        THEN /\ Advance(1) /\ UNCHANGED <<mounted, spurious>>
        ELSE \/ /\ Advance(0)
                /\ mounted' = Without(mounted, top)
                /\ UNCHANGED spurious
             \/ /\ spurious < MaxSpuriousFailures
                /\ Advance(1)
                /\ spurious' = spurious + 1
                /\ UNCHANGED mounted
  /\ UNCHANGED <<depVars, wrapVars, brVars, lists, exitCode, rmMounted>>

\* rm -rf jailPath: a mount point cannot be removed, so it fails while
\* anything is still mounted under the jail root
ExecRm ==
  /\ Running /\ Cur.op = "rm -rf"
  /\ rmMounted' = mounted
  /\ Advance(IF mounted = <<>> THEN 0 ELSE 1)
  /\ UNCHANGED <<depVars, wrapVars, brVars, lists, exitCode, mounted, spurious>>

\* exit $EXIT_CODE: with EXIT_CODE unset the word expands to nothing and exit
\* takes the status of the last command run
ExecExit ==
  /\ Running /\ Cur.op = "exit $EXIT_CODE"
  /\ shState' = "exited"
  /\ finalStatus' = IF exitCode = Unset THEN Value(lastStatus) ELSE exitCode
  /\ log' = Append(log, [cmd |-> Cur, status |-> 0])
  /\ UNCHANGED <<depVars, wrapVars, brVars, lists, li, ci, lastStatus, exitCode, mounted, spurious, rmMounted>>

Next ==
  \/ Call
  \/ Wrap

Spec == Init /\ [][Next]_vars

ShNext ==
  \/ CallToRun
  \/ Wrap
  \/ ShStart
  \/ ExecMount
  \/ ExecJail
  \/ ExecAssign
  \/ ExecUmount
  \/ ExecRm
  \/ ExecExit

ShSpec == Init /\ [][ShNext]_vars

\* ------------------------------------------------------- bridge initializer

maxAttempts == 5

\* spawn('socat', httpSocatArgs): with no pid the call throws at once
SpawnHttp ==
  /\ bpc = "spawnHttp"
  /\ \E ok \in BOOLEAN :
       IF ok
       THEN /\ proc' = [proc EXCEPT !["http"] = Spawned]
            /\ bpc' = "spawnSocks"
            /\ UNCHANGED bresult
       ELSE /\ bpc' = "done"
            /\ bresult' = "HttpStartFailed"
            /\ UNCHANGED proc
  /\ UNCHANGED <<depVars, wrapVars, shVars, sock, signalled, loopI, attempts, sleeps, observed>>

\* process.kill(pid, 'SIGTERM') in try/catch on each of `which` that has a pid
Terminate(which) == signalled \cup {b \in which : proc[b].pid}

\* spawn('socat', socksSocatArgs): with no pid the HTTP bridge is signalled
\* and the call throws
SpawnSocks ==
  /\ bpc = "spawnSocks"
  /\ \E ok \in BOOLEAN :
       IF ok
       THEN /\ proc' = [proc EXCEPT !["socks"] = Spawned]
            /\ bpc' = "poll"
            /\ loopI' = 0
            /\ UNCHANGED <<bresult, signalled>>
       ELSE /\ signalled' = Terminate({"http"})
            /\ bpc' = "done"
            /\ bresult' = "SocksStartFailed"
            /\ UNCHANGED <<proc, loopI>>
  /\ UNCHANGED <<depVars, wrapVars, shVars, sock, attempts, sleeps, observed>>

\* `!http.pid || http.killed || !socks.pid || socks.killed`
DiedCheck ==
  \/ ~proc["http"].pid \/ proc["http"].killed
  \/ ~proc["socks"].pid \/ proc["socks"].killed

\* a mutant of LastAttempt: the last attempt is taken to be one further on
LastAttemptOffByOne(n) == n = maxAttempts

\* `i === maxAttempts - 1`
LastAttempt(n) == n = maxAttempts - 1

\* a mutant of SocketsReady: one socket file is enough
SocketsReadyEither == sock["http"] \/ sock["socks"]

\* `fs.existsSync(httpSocketPath) && fs.existsSync(socksSocketPath)`
SocketsReady == sock["http"] /\ sock["socks"]

\* One pass of the loop body up to its await: the liveness test, the two
\* existsSync, and on the last attempt the clean-up and the throw.
Poll ==
  /\ bpc = "poll"
  /\ attempts' = attempts + 1
  /\ IF DiedCheck
     THEN /\ observed' = NothingObserved
          /\ bresult' = "BridgeProcessDied"
          /\ bpc' = "done"
          /\ UNCHANGED signalled
     ELSE /\ observed' = [alive |-> TRUE, http |-> sock["http"],
                          socks |-> sock["http"] /\ sock["socks"]]
          /\ IF SocketsReady
             THEN /\ bpc' = "return"
                  /\ UNCHANGED <<bresult, signalled>>
             ELSE IF LastAttempt(loopI)
             THEN /\ signalled' = Terminate(Bridges)
                  /\ bresult' = "BridgeNotReady"
                  /\ bpc' = "done"
             ELSE /\ bpc' = "sleep"
                  /\ UNCHANGED <<bresult, signalled>>
  /\ UNCHANGED <<depVars, wrapVars, shVars, proc, sock, loopI, sleeps>>

\* the timer of `await new Promise(resolve => setTimeout(resolve, i * 100))`
\* fires, then i++ and the loop test
Wake ==
  /\ bpc = "sleep"
  /\ sleeps' = sleeps + 1
  /\ loopI' = loopI + 1
  /\ bpc' = IF loopI + 1 < maxAttempts THEN "poll" ELSE "return"
  /\ UNCHANGED <<depVars, wrapVars, shVars, proc, sock, signalled, attempts, observed, bresult>>

\* the return after the loop
Return ==
  /\ bpc = "return"
  /\ bresult' = "context"
  /\ bpc' = "done"
  /\ UNCHANGED <<depVars, wrapVars, shVars, proc, sock, signalled, loopI, attempts, sleeps, observed>>

\* the bridge processes run beside the call from their spawn until the loop
\* is left
BridgesRun == bpc \in {"spawnSocks", "poll", "sleep"}

\* socat binds its listening socket
SocketAppears(b) ==
  /\ BridgesRun /\ proc[b].alive /\ ~sock[b]
  /\ sock' = [sock EXCEPT ![b] = TRUE]
  /\ UNCHANGED <<depVars, wrapVars, shVars, bpc, proc, signalled, loopI, attempts, sleeps, observed, bresult>>

\* A bridge process exits on its own.  Its socket file stays behind or goes
\* with it.  The handle's killed is set by subprocess.kill(), which nothing
\* here calls; whether an exit sets it as well is the runtime's choice (Node
\* leaves it false), so it may or may not be set.
ProcessExits(b) ==
  /\ BridgesRun /\ proc[b].alive
  /\ \E flagged \in BOOLEAN :
       proc' = [proc EXCEPT ![b] = [pid |-> TRUE, killed |-> flagged, alive |-> FALSE]]
  /\ \E stays \in BOOLEAN :
       sock' = IF stays THEN sock ELSE [sock EXCEPT ![b] = FALSE]
  /\ UNCHANGED <<depVars, wrapVars, shVars, bpc, signalled, loopI, attempts, sleeps, observed, bresult>>

BridgeNext ==
  \/ SpawnHttp
  \/ SpawnSocks
  \/ Poll
  \/ Wake
  \/ Return
  \/ \E b \in Bridges : SocketAppears(b)
  \/ \E b \in Bridges : ProcessExits(b)

BridgeSpec == Init /\ [][BridgeNext]_vars

\* ------------------------------------------------------ dependency probe

\* the statuses `which` can end with for a tool
WhichStatuses(tool) == IF tool \in installed THEN {"0", "null"} ELSE {"1", "null"}

\* a mutant of DepsCached: the cache is trusted only when it holds true
DepsCachedWhenTrue == freebsdDepsCache = Value(TRUE)

\* `freebsdDepsCache !== undefined`
DepsCached == freebsdDepsCache # Unset

\* One call of hasFreeBSDSandboxDependenciesSync: the cached value when there
\* is one; else the three spawnSync calls, the conjunction of their statuses
\* stored and returned, or false stored and returned when one of them threw.
hasFreeBSDSandboxDependenciesSync ==
  /\ Len(depsReturned) < MaxDepsCalls
  /\ IF DepsCached
     THEN /\ depsReturned' = Append(depsReturned, freebsdDepsCache[1])
          /\ UNCHANGED <<freebsdDepsCache, probeResult, probes>>
     ELSE /\ probes' = probes + 1
          /\ \E threw \in BOOLEAN :
               \E jailResult \in WhichStatuses("jail"), socatResult \in WhichStatuses("socat"),
                  rgResult \in WhichStatuses("rg") :
                 LET value == ~threw /\ jailResult = "0" /\ socatResult = "0" /\ rgResult = "0"
                 IN /\ probeResult' = IF threw THEN [t \in Tools |-> "threw"]
                                      ELSE [jail |-> jailResult, socat |-> socatResult,
                                            rg |-> rgResult]
                    /\ freebsdDepsCache' = Value(value)
                    /\ depsReturned' = Append(depsReturned, value)
  /\ UNCHANGED <<wrapVars, shVars, brVars, installed>>

\* a tool is installed or removed while the process runs
ToolsChange ==
  /\ Len(depsReturned) < MaxDepsCalls
  /\ \E t \in Tools :
       installed' = IF t \in installed THEN installed \ {t} ELSE installed \cup {t}
  /\ UNCHANGED <<wrapVars, shVars, brVars, freebsdDepsCache, probeResult, probes, depsReturned>>

DepsNext ==
  \/ hasFreeBSDSandboxDependenciesSync
  \/ ToolsChange

DepsSpec == Init /\ [][DepsNext]_vars

\* ------------------------------------------------------------------ claims

Exited == shState = "exited"
JailPlaces == {k \in 1..Len(log) : log[k].cmd.op = "jail"}
JailRan == JailPlaces # {}
JailPlace == CHOOSE k \in JailPlaces : TRUE

\* C1: whenever the jail ran, the wrapper script's final exit status is the
\* jail's exit status, whatever that status and whatever the unmounts did.
C1_ExitStatusIsJailStatus ==
  (Exited /\ JailRan) => finalStatus = Value(log[JailPlace].status)

\* C2: whenever the jail ran, every unmount command of the unmount list and
\* the rm -rf of the jail root have been attempted, after the jail, by the time
\* the script exits.
C2_TeardownAlwaysAttempted ==
  (Exited /\ JailRan) =>
    /\ \A i \in 1..Len(unmounts) :
         \E k \in (JailPlace + 1)..Len(log) : log[k].cmd = unmounts[i]
    /\ \E k \in (JailPlace + 1)..Len(log) : log[k].cmd.op = "rm -rf"

\* C3: the jail runs only after every mount of the mount list has run, in
\* list order, and succeeded; once a mount has failed the jail never runs.
C3_JailOnlyAfterAllMounts ==
  /\ \A k \in JailPlaces :
       /\ k = Len(mounts) + 1
       /\ \A j \in 1..Len(mounts) : log[j].cmd = mounts[j] /\ log[j].status = 0
  /\ (\E j \in 1..Len(log) : IsMount(log[j].cmd) /\ log[j].status # 0) => ~JailRan

C3_Witness ==
  /\ JailRan
  /\ Len(mounts) >= 3
  /\ \A j \in 1..Len(mounts) : log[j].cmd = mounts[j] /\ log[j].status = 0

\* the mounts the planner produced: all but the two bridge-socket mounts
PlannerCount ==
  IF outcome = "wrapped" /\ params.hasNetworkRestrictions
  THEN Len(mounts) - 2 ELSE Len(mounts)
BridgeCount == Len(mounts) - PlannerCount

\* C4: the unmount list is the planner's mount list reversed (the k-th
\* unmount from the end targets the mount point of the k-th mount), with the
\* unmounts of the two bridge-socket mounts before all of them.
C4_UnmountsAreMountsReversed ==
  outcome = "wrapped" =>
    /\ Len(unmounts) = Len(mounts)
    /\ \A k \in 1..PlannerCount :
         unmounts[Len(unmounts) - k + 1] = Umount(mounts[k].dst)
    /\ \A k \in 1..BridgeCount :
         \E b \in (PlannerCount + 1)..Len(mounts) : unmounts[k] = Umount(mounts[b].dst)

PlannerRan == outcome \in {"wrapped", "MissingBridgeConfig"}
Range(f) == {f[i] : i \in DOMAIN f}
AllowedPaths == {normalizePathForSandbox(a) : a \in Range(params.writeConfig.allowOnly)}
DeniedPaths == {normalizePathForSandbox(d) : d \in Range(params.writeConfig.denyWithinAllow)}

\* the pairs C5 is about: P allowed, Q denied within it, both on the host,
\* neither under /dev
C5_Cases ==
  {pq \in AllowedPaths \X DeniedPaths :
     /\ IsPrefix(pq[1], pq[2])
     /\ existsSync(host, pq[1]) /\ existsSync(host, pq[2])
     /\ ~startsWithDevSlash(pq[1]) /\ ~startsWithDevSlash(pq[2])}

\* a read-write bind of host content at or above the mount point dst
ExposesWritable(m, dst) ==
  m.op = "mount_nullfs" /\ ~m.ro /\ IsPrefix(m.dst, dst)

C7_IdentityWhenUnrestricted ==
  (outcome \notin {"idle", "called"} /\ ~params.hasNetworkRestrictions
     /\ ~params.hasFilesystemRestrictions) =>
    outcome = "command" /\ returned = params.command

C7_Witness ==
  /\ outcome = "command" /\ returned = "ls -l"
  /\ params.writeConfig.given /\ params.readConfig.given
  /\ params.httpSocketPath # None

\* C8: the missing-bridge-config error is thrown before the planner has run:
\* no mount or jail string has been produced and neither the jail root nor a
\* directory under it has been made.
C8_FailsBeforePlanning ==
  outcome = "MissingBridgeConfig" =>
    mounts = <<>> /\ unmounts = <<>> /\ jailArgs = <<>> /\ created = {}

Started == {b \in Bridges : proc[b].pid}
Exits == {b \in Bridges : proc[b].pid /\ ~proc[b].alive}
Failed == bpc = "done" /\ bresult # "context"

\* C9: on every failure path every bridge process that was started has had a
\* termination signal tried on it before the error is thrown; and when a
\* bridge process has died before readiness, the call fails and both
\* processes have been signalled.
C9_FailureSignalsStarted ==
  /\ Failed => Started \subseteq signalled
  /\ (bpc = "done" /\ Started = Bridges /\ Exits # {}) =>
       (bresult # "context" /\ signalled = Bridges)

\* C10: the loop makes at most maxAttempts attempts and awaits at most
\* maxAttempts - 1 delays; when both bridge processes stay alive and the two
\* socket files never both exist, it makes exactly maxAttempts attempts with
\* no delay after the last, signals both processes and fails with the
\* not-ready error, and returns no context.
C10_BoundedPolling ==
  /\ attempts <= maxAttempts
  /\ sleeps <= maxAttempts - 1
  /\ (bpc = "done" /\ Started = Bridges /\ Exits = {}
        /\ ~(sock["http"] /\ sock["socks"])) =>
       /\ bresult = "BridgeNotReady"
       /\ attempts = maxAttempts
       /\ sleeps = maxAttempts - 1
       /\ signalled = Bridges

C10_Witness ==
  /\ bpc = "done" /\ bresult = "BridgeNotReady"
  /\ Started = Bridges /\ Exits = {}
  /\ sock["http"] /\ ~sock["socks"]
  /\ attempts = maxAttempts

\* C11: a context is returned only when, in one and the same attempt, the
\* liveness test passed for both bridge processes and both socket files were
\* seen to exist; it is never returned from an attempt that saw one socket
\* file only.
C11_ContextOnlyWhenBothSeen ==
  (bpc = "return" \/ bresult = "context") =>
    /\ observed.alive /\ observed.http /\ observed.socks
    /\ Started = Bridges

C11_Witness ==
  /\ bresult = "context"
  /\ attempts = 3 /\ sleeps = 2
  /\ observed.alive /\ observed.http /\ observed.socks

HiddenPaths == {normalizePathForSandbox(d) : d \in Range(params.readConfig.denyOnly)}
HiddenDirs == {d \in HiddenPaths : existsSync(host, d) /\ isDirectory(host, d)}

C13_DepsMemoized ==
  /\ \A k \in 1..Len(depsReturned) : depsReturned[k] = depsReturned[1]
  /\ probes <= 1
  /\ (depsReturned # <<>>) => (probes = 1 /\ freebsdDepsCache = Value(depsReturned[1]))

C13_Witness ==
  /\ Len(depsReturned) = MaxDepsCalls
  /\ depsReturned[1] = FALSE
  /\ probeResult["jail"] = "threw"
  /\ installed = Tools

JailArgSet == Range(jailArgs)
HardeningArgs ==
  {<<"persist=0">>, <<"allow.mount=0">>, <<"allow.set_hostname=0">>, <<"allow.sysvipc=0">>}
IsolationArgs == {<<"vnet">>, <<"allow.raw_sockets=1">>}
InheritArgs == {<<"ip4=inherit">>, <<"ip6=inherit">>}
EnvArgsPresent == {a \in JailArgSet : a[1] = "env."}
SocketSources == {HttpSock, SocksSock}

\* C14: a wrapper's jail arguments hold one network mode.  Without network
\* restriction: ip4=inherit and ip6=inherit, no vnet, no env.* assignment, and
\* no bridge-socket mount in the mount list.  With it: vnet and
\* allow.raw_sockets=1, neither ip4=inherit nor ip6=inherit, and the mount list
\* ends with the two bridge-socket mounts.  Either way persist=0,
\* allow.mount=0, allow.set_hostname=0 and allow.sysvipc=0 are there.
C14_OneNetworkMode ==
  outcome = "wrapped" =>
    /\ HardeningArgs \subseteq JailArgSet
    /\ IF params.hasNetworkRestrictions
       THEN /\ IsolationArgs \subseteq JailArgSet
            /\ InheritArgs \cap JailArgSet = {}
            /\ Len(mounts) >= 2
            /\ SubSeq(mounts, Len(mounts) - 1, Len(mounts)) =
                 << MountNullfs(FALSE, params.httpSocketPath,
                                join(JailPath, params.httpSocketPath)),
                    MountNullfs(FALSE, params.socksSocketPath,
                                join(JailPath, params.socksSocketPath)) >>
       ELSE /\ InheritArgs \subseteq JailArgSet
            /\ IsolationArgs \cap JailArgSet = {}
            /\ EnvArgsPresent = {}
            /\ \A k \in 1..Len(mounts) : mounts[k].src \notin SocketSources

C14_Witness ==
  /\ outcome = "wrapped"
  /\ params.hasNetworkRestrictions /\ params.hasFilesystemRestrictions
  /\ params.writeConfig.given /\ Len(params.writeConfig.allowOnly) > 0
  /\ EnvArgsPresent # {}
  /\ Len(mounts) >= 4

\* C15: the planner produces no read-only bind whose source is /dev or a
\* path under /dev: such an entry of denyWithinAllow or of the mandatory-deny
\* list is skipped.
C15_DevNeverReadOnly ==
  PlannerRan =>
    \A k \in 1..Len(mounts) :
      ~(mounts[k].op = "mount_nullfs" /\ mounts[k].ro /\ IsPrefix(Dev, mounts[k].src))

\* what each phase of the planner adds, taken by itself
EssentialPhase == PlanEssentialMounts(host, JailPath, EmptyPlan, 1).mounts
WritePhase ==
  IF params.writeConfig.given
  THEN PlanAllowOnly(host, JailPath, EmptyPlan, params.writeConfig.allowOnly, 1).mounts
  ELSE PlanCwd(JailPath, EmptyPlan).mounts
DenyPhase ==
  IF params.writeConfig.given
  THEN PlanDenyPaths(host, JailPath, EmptyPlan,
         params.writeConfig.denyWithinAllow \o getMandatoryDenyWithinAllow, 1).mounts
  ELSE <<>>
ReadPhase ==
  IF params.readConfig.given
  THEN PlanDenyOnly(host, JailPath, EmptyPlan, params.readConfig.denyOnly, 1).mounts
  ELSE <<>>
BridgePhase ==
  IF params.hasNetworkRestrictions THEN BridgeMounts(JailPath, params) ELSE <<>>

\* C16: the final mount list is the essential mounts, then the write-policy
\* allow mounts (or the working directory), then the read-only overrides, then
\* the read-policy hides, then, under network restriction only, the two
\* bridge-socket mounts; and the wrapper runs mount commands in the order of
\* that list, the k-th command it runs being the k-th mount.
C16_MountsInPhaseOrder ==
  outcome = "wrapped" =>
    /\ mounts = EssentialPhase \o WritePhase \o DenyPhase \o ReadPhase \o BridgePhase
    /\ \A k \in 1..Len(log) :
         IsMount(log[k].cmd) => (k <= Len(mounts) /\ log[k].cmd = mounts[k])

C16_Witness ==
  /\ JailRan
  /\ EssentialPhase # <<>> /\ DenyPhase # <<>> /\ ReadPhase # <<>> /\ BridgePhase # <<>>
  /\ params.writeConfig.given /\ WritePhase # <<>>
  /\ \A k \in 1..Len(mounts) : log[k].cmd = mounts[k]

\* C17: an attempt that starts when a bridge process has exited ends the call
\* at once with the bridge-process-died error, whether or not the socket
\* files exist, with no further attempt and no sleep.
C17_ExitedFailsAtOnce ==
  [][(bpc = "poll" /\ Exits # {} /\ attempts' = attempts + 1) =>
       (bresult' = "BridgeProcessDied" /\ bpc' = "done" /\ sleeps' = sleeps)]_vars

MountFailed == \E k \in 1..Len(log) : IsMount(log[k].cmd) /\ log[k].status # 0
TeardownRan == \E k \in 1..Len(log) : log[k].cmd.op \in {"umount", "rm -rf"}
\* the mounts that completed, in the order they were made
Completed ==
  SelectSeq([k \in 1..Len(log) |-> IF IsMount(log[k].cmd) /\ log[k].status = 0
                                     THEN log[k].cmd ELSE Tok("skip")],
            LAMBDA c : c.op # "skip")

\* C18: in a run of the wrapper where a setup mount fails, the jail does not
\* run, no unmount and no rm -rf of the jail root is run, and the mounts that
\* had completed are still in place when the script ends.
C18_FailedMountSkipsTeardown ==
  MountFailed => (~JailRan /\ ~TeardownRan /\ (Exited => mounted = Completed))

RmRan == \E k \in 1..Len(log) : log[k].cmd.op = "rm -rf"

\* C19: rm -rf of the jail root is never run while a bind mount of host
\* content made by the setup phase is still mounted under the jail root.
C19_NoRemoveUnderBindMounts ==
  RmRan => \A k \in 1..Len(rmMounted) : rmMounted[k].op # "mount_nullfs"

MountsAt(dst) == {k \in 1..Len(mounts) : mounts[k].dst = dst}
UnmountsOf(dst) == {k \in 1..Len(unmounts) : unmounts[k] = Umount(dst)}
MountPoints == {mounts[k].dst : k \in 1..Len(mounts)}

\* C20 as stated: when the wrapper is composed the two lists have the same
\* length, the unmount list holds exactly one `umount` of each mount's mount
\* point, and every unmount is `umount` of the mount point of some mount.
C20_ExactlyOneUnmountPerMount ==
  outcome = "wrapped" =>
    /\ Len(mounts) = Len(unmounts)
    /\ \A k \in 1..Len(mounts) : Cardinality(UnmountsOf(mounts[k].dst)) = 1
    /\ \A k \in 1..Len(unmounts) :
         unmounts[k].op = "umount" /\ unmounts[k].dst \in MountPoints

\* C20 amended: when the wrapper is composed the two lists have the same
\* length, every unmount is `umount` of the mount point of some mount, and
\* each mount point is unmounted as many times as it is mounted, so that
\* mounts and unmounts pair off one to one.
C20_MountsAndUnmountsPairOff ==
  outcome = "wrapped" =>
    /\ Len(mounts) = Len(unmounts)
    /\ \A k \in 1..Len(unmounts) :
         unmounts[k].op = "umount" /\ unmounts[k].dst \in MountPoints
    /\ \A d \in MountPoints : Cardinality(MountsAt(d)) = Cardinality(UnmountsOf(d))

C20_Witness ==
  /\ outcome = "wrapped" /\ params.hasNetworkRestrictions
  /\ Len(mounts) >= 5
  /\ \E d \in MountPoints : Cardinality(MountsAt(d)) = 2
  /\ \E d \in MountPoints : Cardinality(MountsAt(d)) = 1

====
